---- MODULE Spec2Model ----
(***************************************************************************)
(* ProxyFetch (src/src/mcp/shared/proxy_fetch.py) and submit_proof         *)
(* (src/src/mcp/shared/proof.py) as a state machine.                       *)
(*                                                                         *)
(* Python values are encoded as records of one fixed shape per kind, so    *)
(* that any two of them can be compared.  A dict is a function over a      *)
(* fixed key universe whose missing keys map to Abs.  Coroutines run on    *)
(* one asyncio event loop: the code between two awaits that suspend is     *)
(* one atomic action.                                                      *)
(***************************************************************************)
EXTENDS Integers, Sequences, FiniteSets, TLC

(***************************************************************************)
(* Bounds of the model.                                                    *)
(***************************************************************************)
MaxRequests == 2

(***************************************************************************)
(* Python / JSON values.                                                   *)
(***************************************************************************)
Absent == "<absent>"
NoneStr == "<None>"
NonStr == "<num>"

TopKeys == {"name", "params", "ssn", "passenger_name", "from"}
KeyOrder == <<"name", "params", "ssn", "passenger_name", "from">>
QueryKeys == {"a", "b", "ssn", ""}
Names == TopKeys \cup QueryKeys

\* a JSON value: absent key, string, non-string scalar, or a nested dict
\* with optional entries "name" (n) and "toolName" (tn)
Abs == [t |-> "absent", s |-> "", n |-> Absent, tn |-> Absent]
Str(x) == [t |-> "str", s |-> x, n |-> Absent, tn |-> Absent]
Num(x) == [t |-> "num", s |-> x, n |-> Absent, tn |-> Absent]
Obj(n, tn) == [t |-> "dict", s |-> "", n |-> n, tn |-> tn]

EmptyDict == [key \in TopKeys |-> Abs]
EmptyMap == [key \in Names |-> Abs]

\* the body argument of request(): None, a dict, a str holding the JSON
\* text of dict d (ok), or a str txt that json.loads rejects
PyNone == [k |-> "none", d |-> EmptyDict, ok |-> FALSE, txt |-> ""]
PyDict(d) == [k |-> "dict", d |-> d, ok |-> FALSE, txt |-> ""]
PyJson(d) == [k |-> "str", d |-> d, ok |-> TRUE, txt |-> ""]
PyText(t) == [k |-> "str", d |-> EmptyDict, ok |-> FALSE, txt |-> t]

\* bool(body)
Truthy(b) ==
    CASE b.k = "none" -> FALSE
      [] b.k = "dict" -> b.d # EmptyDict
      [] OTHER -> b.ok \/ b.txt # ""

\* the words of the model's vocabulary that have w as a substring
SubWords(w) ==
    CASE w = "name" -> {"name", "passenger_name", "my name"}
      [] w = "params" -> {"params", "no params"}
      [] OTHER -> {w}

\* the strings that occur in the text of a str body
TextTokens(b) ==
    IF b.ok
    THEN {key \in TopKeys : b.d[key].t # "absent"}
         \cup {b.d[key].s : key \in {x \in TopKeys : b.d[x].t \in {"str", "num"}}}
         \cup {b.d[key].n : key \in {x \in TopKeys : b.d[x].t = "dict"}}
         \cup {b.d[key].tn : key \in {x \in TopKeys : b.d[x].t = "dict"}}
         \cup (IF \E x \in TopKeys : b.d[x].t = "dict" /\ b.d[x].n # Absent
               THEN {"name"} ELSE {})
    ELSE {b.txt}

\* Python's `w in body` for a str body (substring test)
StrContains(b, w) == TextTokens(b) \cap SubWords(w) # {}

\* f"{{{param}}}"
BodyPlaceholder(param) == "{" \o param \o "}"
\* the value part of f"{key}={{{{{key}}}}}"
QueryPlaceholder(key) == "{{" \o key \o "}}"

(***************************************************************************)
(* Configuration: ZkfetchToolOptions, AttestationConfig, ProxyConfig.      *)
(***************************************************************************)
MapKeys == {"", "book", "pay"}

\* public_options: None, or a dict that may hold "timeout", "method" and
\* "headers" (a set of header lines)
PubNone ==
    [isNone |-> TRUE, hasTimeout |-> FALSE, timeout |-> 0,
     hasMethod |-> FALSE, method |-> "", hasHeaders |-> FALSE, headers |-> {}]
PubDict(hasT, t) ==
    [isNone |-> FALSE, hasTimeout |-> hasT, timeout |-> t,
     hasMethod |-> FALSE, method |-> "", hasHeaders |-> FALSE, headers |-> {}]
PubDictWith(hasT, t, method, headers) ==
    [isNone |-> FALSE, hasTimeout |-> hasT, timeout |-> t,
     hasMethod |-> TRUE, method |-> method,
     hasHeaders |-> TRUE, headers |-> headers]

\* private_options: None, or a dict over the keys hiddenParameters (hp: a
\* list, or some other value), hideRequestBody, responseMatches, paramValues
NoList == [t |-> "absent", v |-> <<>>]
List(v) == [t |-> "list", v |-> v]
NotAList(v) == [t |-> "other", v |-> v]
NoParamValues == [has |-> FALSE, v |-> EmptyMap]
PrivNone ==
    [isNone |-> TRUE, hp |-> NoList, hideRequestBody |-> Absent,
     responseMatches |-> Absent, paramValues |-> NoParamValues]
PrivDict(hp, hrb, rm) ==
    [isNone |-> FALSE, hp |-> hp, hideRequestBody |-> hrb,
     responseMatches |-> rm, paramValues |-> NoParamValues]
EmptyPriv == PrivDict(NoList, Absent, Absent)

\* bool(private_options)
PrivTruthy(p) == ~p.isNone /\ p # EmptyPriv

\* redactions: None or a list of rule paths
RedNone == [isNone |-> TRUE, v |-> <<>>]
RedList(v) == [isNone |-> FALSE, v |-> v]

ZkfetchToolOptions(pub, priv, red) ==
    [public_options |-> pub, private_options |-> priv, redactions |-> red]
\* ZkfetchToolOptions() with every field defaulted to None
DefaultToolOptions == ZkfetchToolOptions(PubNone, PrivNone, RedNone)

NoEntry == [has |-> FALSE, opt |-> DefaultToolOptions]
Entry(o) == [has |-> TRUE, opt |-> o]
EmptyToolMap == [key \in MapKeys |-> NoEntry]

AttestationNone ==
    [isNone |-> TRUE, enabled |-> FALSE, service_url |-> "",
     workflow_stage |-> NoneStr, session_id |-> NoneStr,
     submitted_by |-> "unknown-agent"]
AttestationConfig(url, enabled, stage, session) ==
    [isNone |-> FALSE, enabled |-> enabled, service_url |-> url,
     workflow_stage |-> stage, session_id |-> session,
     submitted_by |-> "unknown-agent"]

ProxyConfig(ptype, mapIsNone, m, defIsNone, def, att) ==
    [url |-> "http://wrapper", proxy_type |-> ptype,
     tool_options_map |-> [isNone |-> mapIsNone, m |-> m],
     default_zk_options |-> [isNone |-> defIsNone, opt |-> def],
     attestation_config |-> att]

(***************************************************************************)
(* ProxyFetch._extract_tool_name                                           *)
(***************************************************************************)
Returned(v) == [raised |-> FALSE, v |-> v]
Raised(e) == [raised |-> TRUE, v |-> e]

\* isinstance(x, str) for a nested entry
IsStrEntry(x) == x # Absent /\ x # NonStr

\* extract_tool_name with params.toolName looked up before params.name
extract_tool_name_toolNameFirst(body) ==
    IF ~Truthy(body) THEN Returned(NoneStr)
    ELSE IF body.k = "str"
    THEN IF StrContains(body, "name") \/ StrContains(body, "params")
         THEN Raised("TypeError")
         ELSE Returned(NoneStr)
    ELSE IF body.d["name"].t = "str" THEN Returned(body.d["name"].s)
    ELSE IF body.d["params"].t = "dict"
    THEN IF IsStrEntry(body.d["params"].tn) THEN Returned(body.d["params"].tn)
         ELSE IF IsStrEntry(body.d["params"].n)
         THEN Returned(body.d["params"].n)
         ELSE Returned(NoneStr)
    ELSE Returned(NoneStr)

\* ProxyFetch._extract_tool_name
extract_tool_name(body) ==
    IF ~Truthy(body) THEN Returned(NoneStr)
    ELSE IF body.k = "str"
    THEN \* `"name" in body` is a substring test and body["name"] raises
         IF StrContains(body, "name") \/ StrContains(body, "params")
         THEN Raised("TypeError")
         ELSE Returned(NoneStr)
    ELSE IF body.d["name"].t = "str" THEN Returned(body.d["name"].s)
    ELSE IF body.d["params"].t = "dict"
    THEN IF IsStrEntry(body.d["params"].n) THEN Returned(body.d["params"].n)
         ELSE IF IsStrEntry(body.d["params"].tn)
         THEN Returned(body.d["params"].tn)
         ELSE Returned(NoneStr)
    ELSE Returned(NoneStr)

(***************************************************************************)
(* ProxyFetch._resolve_tool_options                                        *)
(***************************************************************************)
\* bool(tool_name)
NameTruthy(tool_name) == tool_name # NoneStr /\ tool_name # ""
\* bool(tool_options_map)
MapTruthy(tm) == ~tm.isNone /\ tm.m # EmptyToolMap
\* tool_name in tool_options_map
InMap(tm, tool_name) == tool_name \in MapKeys /\ tm.m[tool_name].has

\* where the resolved options object lives: an entry of the map, the
\* default, or a fresh ZkfetchToolOptions()
resolve_location(cfg, tool_name) ==
    IF /\ NameTruthy(tool_name)
       /\ MapTruthy(cfg.tool_options_map)
       /\ InMap(cfg.tool_options_map, tool_name)
    THEN "map"
    ELSE IF ~cfg.default_zk_options.isNone THEN "default"
    ELSE "fresh"

resolve_tool_options(cfg, tool_name) ==
    CASE resolve_location(cfg, tool_name) = "map" ->
             cfg.tool_options_map.m[tool_name].opt
      [] resolve_location(cfg, tool_name) = "default" ->
             cfg.default_zk_options.opt
      [] OTHER -> DefaultToolOptions

(***************************************************************************)
(* URLs.  A url is its text before the first "?" and, when it has a "?",   *)
(* the "&"-separated key=value pairs of the query string, as written.      *)
(***************************************************************************)
Url(base, hasQ, q) == [base |-> base, hasQ |-> hasQ, q |-> q]

\* percent-decoding with "+" read as a space, as parse_qs decodes names
\* and values
QsUnquote(x) ==
    CASE x = "J%6Fhn" -> "John"
      [] x = "x%20y" -> "x y"
      [] x = "x+y" -> "x y"
      [] x = "x%2541" -> "x%41"
      [] x = "s%73n" -> "ssn"
      [] OTHER -> x

\* urllib.parse.unquote
unquote(x) ==
    CASE x = "J%6Fhn" -> "John"
      [] x = "x%20y" -> "x y"
      [] x = "x%2541" -> "x%41"
      [] x = "x%41" -> "xA"
      [] x = "s%73n" -> "ssn"
      [] OTHER -> x

\* index of key in the list of [key, values] entries, 0 when missing
RECURSIVE IndexOfKey(_, _, _)
IndexOfKey(entries, key, i) ==
    IF i > Len(entries) THEN 0
    ELSE IF entries[i].key = key THEN i
    ELSE IndexOfKey(entries, key, i + 1)

\* parse_qs(query_string, keep_blank_values=True): a dict from decoded
\* name to the list of its decoded values, in order of first occurrence
RECURSIVE ParseQsFrom(_, _, _)
ParseQsFrom(q, i, acc) ==
    IF i > Len(q) THEN acc
    ELSE LET key == QsUnquote(q[i][1])
             val == QsUnquote(q[i][2])
             j == IndexOfKey(acc, key, 1)
         IN  ParseQsFrom(q, i + 1,
                 IF j = 0
                 THEN Append(acc, [key |-> key, values |-> <<val>>])
                 ELSE [acc EXCEPT ![j].values = Append(@, val)])
parse_qs(q) == ParseQsFrom(q, 1, <<>>)

\* key in hidden_params
InList(v, key) == \E i \in 1..Len(v) : v[i] = key

(***************************************************************************)
(* Hiding, lines 237-273 of ProxyFetch._zkfetch_request.                   *)
(***************************************************************************)
\* `param in final_body` for a dict d
HasKey(d, param) == param \in TopKeys /\ d[param].t # "absent"

\* HideBodyFrom without line 248: the value is recorded, the body keeps it
RECURSIVE HideBodyFrom_keep(_, _, _)
HideBodyFrom_keep(hidden, i, st) ==
    IF i > Len(hidden) THEN st
    ELSE LET param == hidden[i] IN
         HideBodyFrom_keep(hidden, i + 1,
             IF HasKey(st.d, param)
             THEN [d |-> st.d,
                   pm |-> [st.pm EXCEPT ![param] = st.d[param]]]
             ELSE st)

\* lines 245-248: the loop over hidden_params on a dict body; st holds the
\* dict d and param_values_map pm
RECURSIVE HideBodyFrom(_, _, _)
HideBodyFrom(hidden, i, st) ==
    IF i > Len(hidden) THEN st
    ELSE LET param == hidden[i] IN
         HideBodyFrom(hidden, i + 1,
             IF HasKey(st.d, param)
             THEN [d |-> [st.d EXCEPT ![param] = Str(BodyPlaceholder(param))],
                   pm |-> [st.pm EXCEPT ![param] = st.d[param]]]
             ELSE st)

\* `for value in values: new_query_parts.append(f"{key}={value}")`
RECURSIVE KeepValues(_, _, _, _)
KeepValues(key, values, i, parts) ==
    IF i > Len(values) THEN parts
    ELSE KeepValues(key, values, i + 1, Append(parts, <<key, values[i]>>))

\* lines 257-265: the loop over query_params.items(); st holds
\* new_query_parts, param_values_map pm and url_modified
RECURSIVE HideQueryFrom(_, _, _, _)
HideQueryFrom(qp, hidden, i, st) ==
    IF i > Len(qp) THEN st
    ELSE LET key == qp[i].key
             values == qp[i].values
         IN  HideQueryFrom(qp, hidden, i + 1,
                 IF InList(hidden, key)
                 THEN [parts |-> Append(st.parts, <<key, QueryPlaceholder(key)>>),
                       pm |-> [st.pm EXCEPT ![key] = Str(unquote(values[1]))],
                       modified |-> TRUE]
                 ELSE [parts |-> KeepValues(key, values, 1, st.parts),
                       pm |-> st.pm,
                       modified |-> st.modified])

\* HideUrl without the url_modified test of line 267: the url is always
\* rebuilt from the parsed query
HideUrl_rebuild(url, hidden, pm) ==
    IF ~url.hasQ THEN [url |-> url, pm |-> pm]
    ELSE LET st == HideQueryFrom(parse_qs(url.q), hidden, 1,
                       [parts |-> <<>>, pm |-> pm, modified |-> FALSE])
         IN  [url |-> Url(url.base, TRUE, st.parts), pm |-> st.pm]

\* lines 251-268: final_url and param_values_map after the query rewrite
HideUrl(url, hidden, pm) ==
    IF ~url.hasQ THEN [url |-> url, pm |-> pm]
    ELSE LET st == HideQueryFrom(parse_qs(url.q), hidden, 1,
                       [parts |-> <<>>, pm |-> pm, modified |-> FALSE])
         IN  [url |-> IF st.modified THEN Url(url.base, TRUE, st.parts) ELSE url,
              pm |-> st.pm]

\* copy_private_options without the dict() copy of line 227
copy_private_options_alias(priv) ==
    [shared |-> PrivTruthy(priv), v |-> IF PrivTruthy(priv) THEN priv ELSE EmptyPriv]

\* line 227: dict(zk_options.private_options) if ... else {} ; shared says
\* whether the result is the very dict held by the configuration
copy_private_options(priv) ==
    [shared |-> FALSE, v |-> IF PrivTruthy(priv) THEN priv ELSE EmptyPriv]

\* line 226 and 231-235: final_body = body or {}, parsed when it is a str;
\* shared says whether final_body is the caller's own object
parse_body(body) ==
    IF ~Truthy(body) THEN [shared |-> FALSE, v |-> PyDict(EmptyDict)]
    ELSE IF body.k = "str" /\ body.ok THEN [shared |-> FALSE, v |-> PyDict(body.d)]
    ELSE [shared |-> TRUE, v |-> body]

\* install_param_values without the pop of line 273: the
\* hiddenParameters list stays in the private options
install_param_values_keeplist(private_options, pm) ==
    IF pm # EmptyMap
    THEN [private_options EXCEPT
             !.paramValues = [has |-> TRUE, v |-> pm],
             !.hideRequestBody = Absent]
    ELSE private_options

\* lines 270-273: a non-empty param_values_map becomes paramValues, and
\* hideRequestBody and hiddenParameters are popped
install_param_values(private_options, pm) ==
    IF pm # EmptyMap
    THEN [private_options EXCEPT
             !.paramValues = [has |-> TRUE, v |-> pm],
             !.hideRequestBody = Absent,
             !.hp = NoList]
    ELSE private_options

\* hide_parameters without lines 270-273: paramValues is never installed
hide_parameters_nomap(final_body, url, private_options) ==
    IF private_options.hp.t # "list"
    THEN [body |-> final_body, url |-> url, priv |-> private_options,
          pm |-> EmptyMap]
    ELSE LET hidden == private_options.hp.v
             b == IF final_body.k = "dict"
                  THEN HideBodyFrom(hidden, 1, [d |-> final_body.d, pm |-> EmptyMap])
                  ELSE [d |-> final_body.d, pm |-> EmptyMap]
             u == HideUrl(url, hidden, b.pm)
         IN  [body |-> [final_body EXCEPT !.d = b.d],
              url |-> u.url,
              priv |-> private_options,
              pm |-> u.pm]

\* lines 238-273: final_body, final_url, private_options and
\* param_values_map after hiding
hide_parameters(final_body, url, private_options) ==
    IF private_options.hp.t # "list"
    THEN [body |-> final_body, url |-> url, priv |-> private_options,
          pm |-> EmptyMap]
    ELSE LET hidden == private_options.hp.v
             b == IF final_body.k = "dict"
                  THEN HideBodyFrom(hidden, 1, [d |-> final_body.d, pm |-> EmptyMap])
                  ELSE [d |-> final_body.d, pm |-> EmptyMap]
             u == HideUrl(url, hidden, b.pm)
         IN  [body |-> [final_body EXCEPT !.d = b.d],
              url |-> u.url,
              priv |-> install_param_values(private_options, u.pm),
              pm |-> u.pm]

(***************************************************************************)
(* The zkfetch payload, lines 275-286.                                     *)
(***************************************************************************)
DefaultTimeout == 30000

JsonNull == [k |-> "null", members |-> <<>>, s |-> ""]

\* the members of a dict in key order
RECURSIVE MembersFrom(_, _, _)
MembersFrom(d, i, acc) ==
    IF i > Len(KeyOrder) THEN acc
    ELSE MembersFrom(d, i + 1,
             IF d[KeyOrder[i]].t # "absent"
             THEN Append(acc, <<KeyOrder[i], d[KeyOrder[i]]>>)
             ELSE acc)

\* json.dumps(final_body) if final_body else None
dumps_body(final_body) ==
    IF ~Truthy(final_body) THEN JsonNull
    ELSE IF final_body.k = "dict"
    THEN [k |-> "object", members |-> MembersFrom(final_body.d, 1, <<>>), s |-> ""]
    ELSE [k |-> "string", members |-> <<>>, s |-> final_body.txt]

\* bool(public_options): a dict with at least one key
PubTruthy(pub) ==
    ~pub.isNone /\ (pub.hasTimeout \/ pub.hasMethod \/ pub.hasHeaders)

\* the headers of the payload
ContentType == {"Content-Type: application/json"}

\* the payload with the default timeout whatever the options say
build_payload_notimeout(final_url, method, final_body, private_options, zk) ==
    [url |-> final_url,
     publicOptions |->
        [method |-> method,
         headers |-> ContentType,
         body |-> dumps_body(final_body),
         timeout |-> DefaultTimeout],
     privateOptions |-> private_options,
     redactions |-> IF zk.redactions.isNone THEN <<>> ELSE zk.redactions.v]

build_payload(final_url, method, final_body, private_options, zk) ==
    [url |-> final_url,
     publicOptions |->
        [method |-> method,
         headers |-> ContentType,
         body |-> dumps_body(final_body),
         timeout |-> IF PubTruthy(zk.public_options)
                     THEN IF zk.public_options.hasTimeout
                          THEN zk.public_options.timeout ELSE DefaultTimeout
                     ELSE DefaultTimeout],
     privateOptions |-> private_options,
     redactions |-> IF zk.redactions.isNone THEN <<>> ELSE zk.redactions.v]

NoPayload ==
    [url |-> Url("", FALSE, <<>>),
     publicOptions |-> [method |-> "", headers |-> {}, body |-> JsonNull,
                        timeout |-> 0],
     privateOptions |-> PrivNone,
     redactions |-> <<>>]

(***************************************************************************)
(* Lines 216-286: everything _zkfetch_request does before the POST.        *)
(***************************************************************************)
zkfetch_prepare(cfg, url, method, body) ==
    LET tn == extract_tool_name(body)
        tool_name == tn.v
        zk == resolve_tool_options(cfg, tool_name)
        po == copy_private_options(zk.private_options)
        fb == parse_body(body)
        h == hide_parameters(fb.v, url, po.v)
    IN  IF tn.raised
        THEN [raised |-> TRUE, error |-> tn.v, tool_name |-> NoneStr,
              payload |-> NoPayload, final_body |-> body,
              body_shared |-> FALSE, final_url |-> url, pm |-> EmptyMap,
              priv_shared |-> FALSE, priv |-> PrivNone,
              zk |-> DefaultToolOptions]
        ELSE [raised |-> FALSE, error |-> "", tool_name |-> tool_name,
              payload |-> build_payload(h.url, method, h.body, h.priv, zk),
              final_body |-> h.body, body_shared |-> fb.shared,
              final_url |-> h.url, pm |-> h.pm,
              priv_shared |-> po.shared, priv |-> h.priv, zk |-> zk]

\* the configuration after a write through the resolved options'
\* private_options dict
store_private_options(cfg, tool_name, priv) ==
    CASE resolve_location(cfg, tool_name) = "map" ->
             [cfg EXCEPT !.tool_options_map.m[tool_name].opt.private_options = priv]
      [] resolve_location(cfg, tool_name) = "default" ->
             [cfg EXCEPT !.default_zk_options.opt.private_options = priv]
      [] OTHER -> cfg

(***************************************************************************)
(* Responses and results.                                                  *)
(***************************************************************************)
\* a decoded JSON response body: a dict {data, proof?, onchainProof?,
\* verified?} or a JSON value that is not a dict
RespDict(proof, onchain, verified) ==
    [t |-> "dict", data |-> "result", proof |-> proof,
     onchainProof |-> onchain, verified |-> verified]
RespList ==
    [t |-> "list", data |-> Absent, proof |-> Absent,
     onchainProof |-> Absent, verified |-> Absent]
NoResp ==
    [t |-> "none", data |-> Absent, proof |-> Absent,
     onchainProof |-> Absent, verified |-> Absent]

\* what client.post yields: an exception, or an HTTP response with a
\* status, a body text, and the value the text decodes to (t = "invalid"
\* when it is not JSON)
HttpError(e) == [exc |-> e, status |-> 0, text |-> "", json |-> NoResp]
HttpResponse(status, text, json) ==
    [exc |-> "", status |-> status, text |-> text, json |-> json]
InvalidJson == [NoResp EXCEPT !.t = "invalid"]
NoResponse == [exc |-> "", status |-> 0, text |-> "", json |-> NoResp]

\* response.is_success
IsSuccess(status) == status >= 200 /\ status <= 299

NoError == [etype |-> "", status |-> 0, text |-> ""]
Error(etype, status, text) == [etype |-> etype, status |-> status, text |-> text]

\* what an awaited call gives its caller
NoResult == [k |-> "none", value |-> NoResp, err |-> NoError]
Value(v) == [k |-> "value", value |-> v, err |-> NoError]
Raise(e) == [k |-> "error", value |-> NoResp, err |-> e]

\* handle_response without the is_success test of line 430
handle_response_nocheck(response) ==
    IF response.json.t \in {"invalid", "none"}
    THEN Raise(Error("JSONDecodeError", 0, ""))
    ELSE Value(response.json)

\* ProxyFetch._handle_response
handle_response(response) ==
    IF ~IsSuccess(response.status)
    THEN Raise(Error("Exception", response.status, response.text))
    ELSE IF response.json.t = "invalid"
    THEN Raise(Error("JSONDecodeError", 0, ""))
    ELSE Value(response.json)

(***************************************************************************)
(* Attestation: ProxyFetch._submit_proof_async and proof.submit_proof.     *)
(***************************************************************************)
\* the JSON form of a body value inside a json= payload
json_of(body) ==
    CASE body.k = "none" -> JsonNull
      [] body.k = "dict" ->
             [k |-> "object", members |-> MembersFrom(body.d, 1, <<>>), s |-> ""]
      [] OTHER -> [k |-> "string", members |-> <<>>, s |-> body.txt]

\* bool(proof_value)
ProofTruthy(proof) == proof \notin {Absent, "null", ""}
\* bool(x) for an Optional[str] of the attestation config
OptTruthy(x) == x # NoneStr /\ x # ""

NoRef == [shared |-> FALSE, id |-> 0, v |-> PyNone]
\* no answer of the attestation service yet
NoReply == [exc |-> "", status |-> 0, proof_id |-> "<absent>"]
NoAttestPayload ==
    [session_id |-> "", tool_name |-> "",
     request |-> [url |-> Url("", FALSE, <<>>), body |-> JsonNull],
     response |-> NoResp, proof |-> [proof |-> Absent, onchainProof |-> Absent],
     verified |-> "", onchain_compatible |-> FALSE, submitted_by |-> "",
     workflow_stage |-> ""]

\* submit_proof_async without line 401: submit_task is never scheduled
submit_proof_async_nospawn(zkfetch_response, tool_name, att, request_body, request_url, req) ==
    [raised |-> zkfetch_response.t # "dict", spawned |-> FALSE, task |-> <<>>]

\* lines 338-362 and 401: what _submit_proof_async leaves behind: an
\* exception, nothing, or a scheduled submit_task with its closure
\* int(time.time()) at the submission, as text
TimeNow == "<time>"

\* a generated session id whatever the attestation config holds
session_id_for_generated(att, tool_name_str) ==
    "agent-" \o tool_name_str \o "-" \o TimeNow

\* attestation_config.session_id or f"agent-{tool_name_str}-{int(time.time())}"
session_id_for(att, tool_name_str) ==
    IF OptTruthy(att.session_id)
    THEN att.session_id
    ELSE "agent-" \o tool_name_str \o "-" \o TimeNow

submit_proof_async(zkfetch_response, tool_name, att, request_body, request_url, req) ==
    LET tool_name_str == IF NameTruthy(tool_name) THEN tool_name ELSE "direct-fetch"
    IN  IF zkfetch_response.t # "dict"
        THEN [raised |-> TRUE, spawned |-> FALSE, task |-> <<>>]
        ELSE IF ~ProofTruthy(zkfetch_response.proof)
        THEN [raised |-> FALSE, spawned |-> FALSE, task |-> <<>>]
        ELSE [raised |-> FALSE, spawned |-> TRUE,
              task |-> << [state |-> "scheduled",
                           req |-> req,
                           tool_name |-> tool_name_str,
                           session_id |-> session_id_for(att, tool_name_str),
                           workflow_stage |-> IF OptTruthy(att.workflow_stage)
                                              THEN att.workflow_stage ELSE "general",
                           onchain_compatible |-> zkfetch_response.onchainProof # Absent,
                           service_url |-> att.service_url,
                           submitted_by |-> att.submitted_by,
                           response_body |-> zkfetch_response,
                           zkfetch_response |-> zkfetch_response,
                           proof_value |-> zkfetch_response.proof,
                           request_url |-> request_url,
                           request_body |-> request_body,
                           sent |-> NoAttestPayload,
                           submit_url |-> "",
                           conn |-> "none",
                           reply |-> NoReply,
                           proof_id |-> NoneStr] >>]

\* dict.get(key, default) on a value of the response
GetOr(x, default) == IF x = Absent THEN default ELSE x

\* attestation_payload with the body left out of the record's request
attestation_payload_nobody(task, body_now) ==
    [session_id |-> task.session_id,
     tool_name |-> task.tool_name,
     request |-> [url |-> task.request_url, body |-> JsonNull],
     response |-> task.response_body,
     proof |-> [proof |-> task.proof_value,
                onchainProof |-> GetOr(task.response_body.onchainProof, "null")],
     verified |-> GetOr(task.zkfetch_response.verified, "false"),
     onchain_compatible |-> task.onchain_compatible,
     submitted_by |-> task.submitted_by,
     workflow_stage |-> IF OptTruthy(task.workflow_stage)
                        THEN task.workflow_stage ELSE "general"]

\* lines 366-384 and proof.py 97-112: the record submit_task builds when
\* it runs and the payload submit_proof POSTs, given the body the
\* request_body reference then points at
attestation_payload(task, body_now) ==
    [session_id |-> task.session_id,
     tool_name |-> task.tool_name,
     request |-> [url |-> task.request_url, body |-> json_of(body_now)],
     response |-> task.response_body,
     proof |-> [proof |-> task.proof_value,
                onchainProof |-> GetOr(task.response_body.onchainProof, "null")],
     verified |-> GetOr(task.zkfetch_response.verified, "false"),
     onchain_compatible |-> task.onchain_compatible,
     submitted_by |-> task.submitted_by,
     workflow_stage |-> IF OptTruthy(task.workflow_stage)
                        THEN task.workflow_stage ELSE "general"]

\* what the attestation service answers: an exception of the transport,
\* or a status with the proof_id of the decoded body (Absent when the body
\* has none, NonStr when it is not a string)
AttestError == [exc |-> "ConnectError", status |-> 0, proof_id |-> Absent]
\* client.post on a closed client, or on a connection closed under it
AttestClosed == [exc |-> "ClosedError", status |-> 0, proof_id |-> Absent]
AttestReply(status, proof_id) == [exc |-> "", status |-> status, proof_id |-> proof_id]

\* proof.py line 97: where submit_proof POSTs
submit_url(attestation_service_url) == attestation_service_url \o "/proofs/submit"

\* submit_proof without the is_success test of proof.py line 122
submit_proof_nostatus(reply) ==
    IF reply.exc # "" THEN Raised("Failed to send request to attestation service")
    ELSE IF IsStrEntry(reply.proof_id) THEN Returned(reply.proof_id)
    ELSE Raised("No proof_id in response from attestation service")

\* proof.py 114-139: submit_proof returns the proof id or raises
submit_proof(reply) ==
    IF reply.exc # "" THEN Raised("Failed to send request to attestation service")
    ELSE IF ~IsSuccess(reply.status) THEN Raised("Failed to submit proof")
    ELSE IF IsStrEntry(reply.proof_id) THEN Returned(reply.proof_id)
    ELSE Raised("No proof_id in response from attestation service")

\* result_after_submit without the try/except of lines 386-398
result_after_submit_raise(result, outcome) ==
    IF outcome.raised THEN Raise(Error("Exception", 0, outcome.v)) ELSE result

\* lines 386-398: submit_task catches every Exception of submit_proof, so
\* the result already given to the caller of request() stays as it is
result_after_submit(result, outcome) == result

(***************************************************************************)
(* Redaction: apply_redactions and _redact_at_path.  A JSON value is the   *)
(* kind of its root and a map from key paths to the node at that path; a   *)
(* rule path is the sequence of the words and dots of its text.            *)
(***************************************************************************)
MaxRules == 2
MaxApply == 2

DocKeys == {"data", "card", "id", ""}
DocPaths ==
    {<<x>> : x \in DocKeys}
    \cup {<<x, y>> : x \in DocKeys, y \in DocKeys}
    \cup {<<x, y, z>> : x \in DocKeys, y \in DocKeys, z \in DocKeys}

NoNode == "<absent>"
DictNode == "<dict>"
ListNode == "<list>"
NullNode == "<null>"
NumNode == "<num>"
Mask == "****"

\* the identity of the container object first found at path q, and of
\* what is no container
ObjectAt(q) == <<"object at">> \o q
NoObject == <<"no object">>

\* the JSON value with root kind root and the nodes of the function nodes;
\* oid is the identity of the dict or list at each path
Doc(root, nodes) ==
    [root |-> root,
     at |-> [q \in DocPaths |-> IF q \in DOMAIN nodes THEN nodes[q] ELSE NoNode],
     root_oid |-> ObjectAt(<<>>),
     oid |-> [q \in DocPaths |->
                IF q \in DOMAIN nodes /\ nodes[q] \in {DictNode, ListNode}
                THEN ObjectAt(q) ELSE NoObject]]

\* the node at path q of a value; <<>> is the root
Node(doc, q) ==
    IF q = <<>> THEN doc.root
    ELSE IF q \in DocPaths THEN doc.at[q]
    ELSE NoNode

\* str.split(".") on the text of a path
RECURSIVE SplitFrom(_, _, _, _)
SplitFrom(text, i, parts, word) ==
    IF i > Len(text) THEN Append(parts, word)
    ELSE IF text[i] = "."
    THEN SplitFrom(text, i + 1, Append(parts, word), "")
    ELSE SplitFrom(text, i + 1, parts, word \o text[i])
split(text) == SplitFrom(text, 1, <<>>, "")

\* q is p followed by at least one more key
IsBelow(q, p) ==
    /\ Len(q) > Len(p)
    /\ \A i \in 1..Len(p) : q[i] = p[i]

\* SetItem on copies: the value is rebuilt with a new dict in place of
\* every dict above the key
SetItem_copy(doc, p, part, new) ==
    [doc EXCEPT
        !.at = [q \in DocPaths |->
            IF q = Append(p, part) THEN new
            ELSE IF IsBelow(q, Append(p, part)) THEN NoNode
            ELSE doc.at[q]],
        !.root_oid = <<"copy of">> \o doc.root_oid,
        !.oid = [q \in DocPaths |->
            IF q = Append(p, part) \/ IsBelow(q, Append(p, part)) THEN NoObject
            ELSE IF IsBelow(Append(p, part), q) THEN <<"copy of">> \o doc.oid[q]
            ELSE doc.oid[q]]]

\* current[part] = new, where current is the dict at path p: the dict is
\* written in place, what was at and below the key is gone
SetItem(doc, p, part, new) ==
    [doc EXCEPT
        !.at = [q \in DocPaths |->
            IF q = Append(p, part) THEN new
            ELSE IF IsBelow(q, Append(p, part)) THEN NoNode
            ELSE doc.at[q]],
        !.oid = [q \in DocPaths |->
            IF q = Append(p, part) \/ IsBelow(q, Append(p, part)) THEN NoObject
            ELSE doc.oid[q]]]

\* the result of a redaction: the value as it is left, and whether an
\* exception came out
Redacted(doc) == [doc |-> doc, raised |-> FALSE]
RedactRaised(doc) == [doc |-> doc, raised |-> TRUE]

\* mask_value deriving the mask from the value it replaces
mask_value_digest(old) == "#" \o old

\* line 517: the value written over the old one
mask_value(old) == Mask

\* RedactFrom without the `part in current` tests of lines 516 and 525:
\* the last key is written whether it was there or not, and a missing
\* intermediate key raises KeyError
RECURSIVE RedactFrom_nocheck(_, _, _, _)
RedactFrom_nocheck(doc, parts, i, p) ==
    LET part == parts[i]
        current == Node(doc, p)
    IN  IF i = Len(parts)
        THEN IF current = DictNode /\ Append(p, part) \in DocPaths
             THEN Redacted(SetItem(doc, p, part, Mask))
             ELSE Redacted(doc)
        ELSE IF current # DictNode THEN Redacted(doc)
        ELSE IF Node(doc, Append(p, part)) = NoNode THEN RedactRaised(doc)
        ELSE RedactFrom_nocheck(doc, parts, i + 1, Append(p, part))

\* the loop of lines 512-533 from part i on, current being the node at p
RECURSIVE RedactFrom(_, _, _, _)
RedactFrom(doc, parts, i, p) ==
    LET part == parts[i]
        current == Node(doc, p)
    IN  IF i = Len(parts)
        THEN IF current = DictNode /\ Node(doc, Append(p, part)) # NoNode
             THEN Redacted(SetItem(doc, p, part,
                                   mask_value(Node(doc, Append(p, part)))))
             ELSE Redacted(doc)
        ELSE IF current # DictNode THEN Redacted(doc)
        ELSE IF Node(doc, Append(p, part)) = NoNode THEN Redacted(doc)
        ELSE RedactFrom(doc, parts, i + 1, Append(p, part))

\* _redact_at_path
redact_at_path(doc, path) ==
    LET parts == split(path)
    IN  IF parts = <<>> THEN Redacted(doc)
        ELSE RedactFrom(doc, parts, 1, <<>>)

\* a redaction rule: a dict with or without the key "path"
Rule(path) == [hasPath |-> TRUE, path |-> path]
RuleNoPath == [hasPath |-> FALSE, path |-> <<>>]

\* lines 494-498 from rule i on
RECURSIVE ApplyFrom(_, _, _)
ApplyFrom(res, redactions, i) ==
    IF i > Len(redactions) \/ res.raised THEN res
    ELSE ApplyFrom(IF redactions[i].hasPath
                   THEN redact_at_path(res.doc, redactions[i].path)
                   ELSE res,
                   redactions, i + 1)

\* apply_redactions
apply_redactions(value, redactions) == ApplyFrom(Redacted(value), redactions, 1)

(***************************************************************************)
(* State.                                                                  *)
(***************************************************************************)
VARIABLES
    config,     \* the ProxyConfig held by the ProxyFetch instance
    config0,    \* the ProxyConfig as it was passed to __init__
    heap,       \* the body objects of the caller, by allocation order
    pc,         \* where the caller of request() is: idle, awaiting, returned
    nreq,       \* number of request() calls so far
    cur,        \* the locals of the current request() call
    ret,        \* what the current request() call gave its caller
    tasks,      \* the submit_task tasks created so far, by creation order
    red,        \* the value and rule list of the apply_redactions calls
    client      \* the httpx.AsyncClient of the instance: closed or not

vars == <<config, config0, heap, pc, nreq, cur, ret, tasks, red, client>>

\* red: the value before the first call (orig), as it is now (value) and
\* as the first call left it (once), the rule list, the number of calls
\* made, and whether the last one raised
RedOf(doc, redactions) ==
    [orig |-> doc, value |-> doc, once |-> doc, redactions |-> redactions,
     n |-> 0, raised |-> FALSE]
NoRed == RedOf(Doc(DictNode, <<>>), <<>>)

NoCur ==
    [id |-> 0, url |-> Url("", FALSE, <<>>), method |-> "", orig |-> PyNone,
     tool_name |-> NoneStr, posted |-> FALSE, payload |-> NoPayload,
     final_url |-> Url("", FALSE, <<>>), final_body |-> NoRef, pm |-> EmptyMap,
     zk |-> DefaultToolOptions, response |-> NoResponse, wrote |-> FALSE,
     resp_obj |-> NoResp, wrote_resp |-> FALSE]

(***************************************************************************)
(* Inputs.                                                                 *)
(***************************************************************************)
Dict(name, params, ssn, pname, from) ==
    [key \in TopKeys |->
        CASE key = "name" -> name
          [] key = "params" -> params
          [] key = "ssn" -> ssn
          [] key = "passenger_name" -> pname
          [] OTHER -> from]

Bodies ==
    { PyNone,
      PyDict(EmptyDict),
      PyDict(Dict(Abs, Abs, Str("123"), Abs, Str("NYC"))),
      PyDict(Dict(Str("book"), Abs, Str("123"), Str("John Doe"), Str("NYC"))),
      PyDict(Dict(Str(""), Abs, Str("123"), Abs, Abs)),
      PyDict(Dict(Abs, Obj("pay", Absent), Num("7"), Abs, Str("NYC"))),
      PyDict(Dict(Num("7"), Obj(NonStr, "book"), Abs, Str("John Doe"), Abs)),
      PyDict(Dict(Abs, Obj("pay", "book"), Abs, Abs, Str("NYC"))),
      PyDict(Dict(Str("book"), Obj("pay", Absent), Abs, Abs, Abs)),
      PyJson(Dict(Abs, Abs, Str("123"), Abs, Str("NYC"))),
      PyJson(Dict(Abs, Abs, Abs, Str("John Doe"), Str("NYC"))),
      PyText("not json"),
      PyText("my name") }

Urls ==
    { Url("http://api/flights", FALSE, <<>>),
      Url("http://api/flights", TRUE, << <<"a", "1">>, <<"b", "2">> >>),
      Url("http://api/flights", TRUE, << <<"a", "x%20y">>, <<"b", "2">> >>),
      Url("http://api/flights", TRUE, << <<"a", "1">>, <<"ssn", "John">> >>),
      Url("http://api/flights", TRUE, << <<"a", "1">>, <<"ssn", "John">>, <<"a", "2">> >>),
      Url("http://api/flights", TRUE, << <<"a", "x%20y">>, <<"s%73n", "J%6Fhn">> >>),
      Url("http://api/flights", TRUE, << <<"ssn", "x%2541">>, <<"ssn", "Jane">> >>) }

Methods == {"POST", "TRACE"}

Hidden1 == PrivDict(List(<<"ssn">>), Absent, "ok")
Hidden2 == PrivDict(List(<<"passenger_name", "ssn">>), "true", Absent)
HiddenOther == PrivDict(NotAList(<<"ssn">>), Absent, Absent)
Unhidden == PrivDict(NoList, "true", "ok")

OptA ==
    ZkfetchToolOptions(PubDict(TRUE, 5000), Hidden1,
                       RedList(<<"response.data", "response.id">>))
OptB == ZkfetchToolOptions(PubNone, Hidden2, RedNone)
OptC == ZkfetchToolOptions(PubDict(FALSE, 0), Unhidden, RedList(<<>>))
OptD ==
    ZkfetchToolOptions(PubDictWith(FALSE, 0, "GET", {"X-Trace: on"}),
                       HiddenOther, RedNone)

ToolMap(e, book, pay) ==
    [key \in MapKeys |-> CASE key = "" -> e [] key = "book" -> book [] OTHER -> pay]

Attestations ==
    { AttestationNone,
      AttestationConfig("http://attest", FALSE, NoneStr, NoneStr),
      AttestationConfig("http://attest", TRUE, NoneStr, NoneStr),
      AttestationConfig("http://attest", TRUE, "payment", "session-1") }

ToolMaps ==
    { [isNone |-> TRUE, m |-> EmptyToolMap],
      [isNone |-> FALSE, m |-> ToolMap(NoEntry, Entry(OptA), NoEntry)],
      [isNone |-> FALSE, m |-> ToolMap(Entry(OptA), Entry(OptB), Entry(OptC))] }

Defaults ==
    { [isNone |-> TRUE, opt |-> DefaultToolOptions],
      [isNone |-> FALSE, opt |-> OptB],
      [isNone |-> FALSE, opt |-> OptD] }

Configs ==
    { [url |-> "http://wrapper", proxy_type |-> pt, tool_options_map |-> tm,
       default_zk_options |-> df, attestation_config |-> att] :
        pt \in {"zkfetch"}, tm \in ToolMaps, df \in Defaults, att \in Attestations }
    \cup
    { [url |-> "http://proxy", proxy_type |-> "http",
       tool_options_map |-> [isNone |-> TRUE, m |-> EmptyToolMap],
       default_zk_options |-> [isNone |-> TRUE, opt |-> DefaultToolOptions],
       attestation_config |-> AttestationNone] }

Responses ==
    { HttpError("ConnectTimeout"),
      HttpResponse(500, "internal error", InvalidJson),
      HttpResponse(404, "{}", RespDict(Absent, Absent, Absent)),
      HttpResponse(200, "<html>", InvalidJson),
      HttpResponse(200, "[]", RespList),
      HttpResponse(200, "{..}", RespDict(Absent, Absent, Absent)),
      HttpResponse(200, "{..}", RespDict("null", "oc-1", "true")),
      HttpResponse(200, "{..}", RespDict("", Absent, "true")),
      HttpResponse(200, "{..}", RespDict("zk-1", Absent, Absent)),
      HttpResponse(201, "{..}", RespDict("zk-1", "oc-1", "true")) }

AttestReplies ==
    { AttestError,
      AttestReply(500, Absent),
      AttestReply(503, "proof-1"),
      AttestReply(200, Absent),
      AttestReply(200, NonStr),
      AttestReply(200, "proof-1") }

Docs ==
    { Doc(DictNode, <<>>),
      Doc(ListNode, <<>>),
      Doc(DictNode, <<"data">> :> "x" @@ <<"card">> :> "4111"),
      Doc(DictNode, <<"data">> :> DictNode @@ <<"data", "card">> :> "4111"
                    @@ <<"data", "id">> :> NumNode @@ <<"id">> :> "u1"),
      Doc(DictNode, <<"data">> :> DictNode @@ <<"data", "card">> :> DictNode
                    @@ <<"data", "card", "id">> :> "n" @@ <<"card">> :> ListNode),
      Doc(DictNode, <<"data">> :> ListNode @@ <<"">> :> "e"),
      Doc(DictNode, <<"data">> :> DictNode @@ <<"data", "">> :> "e"
                    @@ <<"data", "card">> :> Mask @@ <<"card">> :> NullNode),
      Doc(DictNode, <<"data">> :> DictNode @@ <<"data", "card">> :> DictNode
                    @@ <<"data", "card", "id">> :> "n"
                    @@ <<"data", "card", "">> :> DictNode
                    @@ <<"id">> :> DictNode @@ <<"id", "card">> :> "c") }

RulePaths ==
    { <<"data">>,
      <<"card">>,
      <<"data", ".", "card">>,
      <<"data", ".", "card", ".", "id">>,
      <<"data", ".", "id">>,
      <<"id", ".", "card">>,
      <<>>,
      <<"data", ".">> }

Rules == {Rule(path) : path \in RulePaths} \cup {RuleNoPath}

RuleLists == UNION {[1..n -> Rules] : n \in 0..MaxRules}

\* zkfetch_complete with line 313 testing the configuration's presence only
zkfetch_complete_anyconfig(cfg, c, response, req) ==
    LET r == handle_response(response)
        att == cfg.attestation_config
        sp == submit_proof_async(r.value, c.tool_name, att, c.final_body,
                                 c.final_url, req)
    IN  IF response.exc # ""
        THEN [ret |-> Raise(Error(response.exc, 0, "")), task |-> <<>>]
        ELSE IF r.k = "error" THEN [ret |-> r, task |-> <<>>]
        ELSE IF ~att.isNone
        THEN IF sp.raised
             THEN [ret |-> Raise(Error("AttributeError", 0, "")), task |-> <<>>]
             ELSE [ret |-> r, task |-> sp.task]
        ELSE [ret |-> r, task |-> <<>>]

(***************************************************************************)
(* Lines 307-327: what _zkfetch_request does once the POST has an outcome: *)
(* the result for the caller and the task it leaves scheduled, if any.     *)
(***************************************************************************)
zkfetch_complete(cfg, c, response, req) ==
    LET r == handle_response(response)
        att == cfg.attestation_config
        sp == submit_proof_async(r.value, c.tool_name, att, c.final_body,
                                 c.final_url, req)
    IN  IF response.exc # ""
        THEN [ret |-> Raise(Error(response.exc, 0, "")), task |-> <<>>]
        ELSE IF r.k = "error" THEN [ret |-> r, task |-> <<>>]
        ELSE IF ~att.isNone /\ att.enabled
        THEN IF sp.raised
             THEN [ret |-> Raise(Error("AttributeError", 0, "")), task |-> <<>>]
             ELSE [ret |-> r, task |-> sp.task]
        ELSE [ret |-> r, task |-> <<>>]

(***************************************************************************)
(* Actions.                                                                *)
(***************************************************************************)
\* the caller makes no request on a client it has closed.
\* request() on a zkfetch configuration, up to the await of client.post:
\* h is the caller's heap with the body argument at h[id]
ZkfetchRequest(h, id, url, method) ==
    /\ pc \in {"idle", "returned"}
    /\ ~client.closed
    /\ config.proxy_type = "zkfetch"
    /\ LET prep == zkfetch_prepare(config, url, method, h[id])
       IN  /\ heap' = IF prep.body_shared
                      THEN [h EXCEPT ![id] = prep.final_body] ELSE h
           /\ config' = IF prep.priv_shared
                        THEN store_private_options(config, prep.tool_name, prep.priv)
                        ELSE config
           /\ cur' = [id |-> id, url |-> url, method |-> method, orig |-> h[id],
                      tool_name |-> prep.tool_name,
                      posted |-> ~prep.raised,
                      payload |-> prep.payload,
                      final_url |-> prep.final_url,
                      final_body |-> [shared |-> prep.body_shared, id |-> id,
                                      v |-> prep.final_body],
                      pm |-> prep.pm,
                      zk |-> prep.zk,
                      response |-> NoResponse, wrote |-> FALSE,
                      resp_obj |-> NoResp, wrote_resp |-> FALSE]
           /\ pc' = IF prep.raised THEN "returned" ELSE "awaiting"
           /\ ret' = IF prep.raised THEN Raise(Error(prep.error, 0, "")) ELSE NoResult
    /\ nreq' = nreq + 1
    /\ UNCHANGED <<client, red, config0, tasks>>

\* the methods _build_request knows
BuildableMethods == {"GET", "POST", "PUT", "DELETE", "PATCH", "HEAD"}

\* request() on a plain configuration: _build_request returns an
\* httpx.Request, which has no send(), so line 198 raises before any I/O
HttpProxyRequest(h, id, url, method) ==
    /\ pc \in {"idle", "returned"}
    /\ ~client.closed
    /\ config.proxy_type # "zkfetch"
    /\ heap' = h
    /\ cur' = [NoCur EXCEPT !.id = id, !.url = url, !.method = method,
                            !.orig = h[id]]
    /\ pc' = "returned"
    /\ ret' = IF method \in BuildableMethods
              THEN Raise(Error("AttributeError", 0, ""))
              ELSE Raise(Error("ValueError", 0, ""))
    /\ nreq' = nreq + 1
    /\ UNCHANGED <<client, red, config, config0, tasks>>

\* create_task scheduling the coroutine it is given twice
create_task_twice(all, task) == all \o task \o task

\* line 401: asyncio.create_task adds the submit_task, if one was built,
\* to the tasks of the event loop
create_task(all, task) == all \o task

\* the POST to the wrapper ends (exception or response) and
\* _zkfetch_request runs to its return
Respond(response) ==
    /\ pc = "awaiting"
    /\ LET done == zkfetch_complete(config, cur, response, nreq)
       IN  /\ ret' = done.ret
           /\ tasks' = create_task(tasks, done.task)
    /\ cur' = [cur EXCEPT !.response = response, !.resp_obj = ret'.value]
    /\ pc' = "returned"
    /\ UNCHANGED <<client, red, config, config0, heap, nreq>>

\* the object a request_body reference points at
Deref(ref) == IF ref.shared THEN heap[ref.id] ELSE ref.v

\* the event loop starts submit_task i: it builds the record and
\* submit_proof POSTs the payload
TaskStart(i) ==
    /\ i \in 1..Len(tasks)
    /\ tasks[i].state = "scheduled"
    /\ tasks' = [tasks EXCEPT
                    ![i].state = "running",
                    ![i].sent = attestation_payload(tasks[i], Deref(tasks[i].request_body)),
                    ![i].submit_url = submit_url(tasks[i].service_url),
                    ![i].conn = IF client.closed THEN "refused" ELSE "open"]
    /\ UNCHANGED <<client, red, config, config0, heap, pc, nreq, cur, ret>>

\* the POST of submit_task i ends and the task finishes; on a client that
\* was closed before the POST (refused) or under it (cut) it ends with the
\* error of the closed client
TaskFinish(i, reply) ==
    /\ i \in 1..Len(tasks)
    /\ tasks[i].state = "running"
    /\ tasks[i].conn = "open" <=> reply # AttestClosed
    /\ LET outcome == submit_proof(reply)
       IN  /\ tasks' = [tasks EXCEPT
                           ![i].state = IF outcome.raised THEN "failed" ELSE "done",
                           ![i].reply = reply,
                           ![i].proof_id = IF outcome.raised THEN NoneStr ELSE outcome.v]
           /\ ret' = result_after_submit(ret, outcome)
    /\ UNCHANGED <<client, red, config, config0, heap, pc, nreq, cur>>

\* the caller, holding the result, writes to the body dict it passed in
CallerWritesBody(value) ==
    /\ pc = "returned"
    /\ ~cur.wrote
    /\ cur.id > 0
    /\ heap[cur.id].k = "dict"
    /\ heap' = [heap EXCEPT ![cur.id].d["ssn"] = value]
    /\ cur' = [cur EXCEPT !.wrote = TRUE]
    /\ UNCHANGED <<client, red, config, config0, pc, nreq, ret, tasks>>

\* apply_redactions(value, redactions) is called on the value and the
\* rule list of red; the value is modified in place
ApplyRedactions ==
    /\ red.n < MaxApply
    /\ ~red.raised
    /\ LET r == apply_redactions(red.value, red.redactions)
       IN  red' = [red EXCEPT !.value = r.doc,
                              !.raised = r.raised,
                              !.n = red.n + 1,
                              !.once = IF red.n = 0 THEN r.doc ELSE red.once]
    /\ UNCHANGED <<client, config, config0, heap, pc, nreq, cur, ret, tasks>>

\* a write of the caller to the response dict it holds: key "verified"
\* set to False, or, as main.py lines 143-147 do, the key "onchainProof"
\* added to the dict at "proof"
WriteResponse(r, key) ==
    IF key = "verified" THEN [r EXCEPT !.verified = "false"]
    ELSE [r EXCEPT !.proof = r.proof \o "+onchainProof"]

\* the closure of a submit_task after that write: zkfetch_response is the
\* caller's dict, response_body a shallow copy of it, and proof_value
\* the object at "proof" of both
WriteAliases(task, key) ==
    IF key = "verified"
    THEN [task EXCEPT !.zkfetch_response = WriteResponse(task.zkfetch_response, key)]
    ELSE [task EXCEPT !.zkfetch_response = WriteResponse(task.zkfetch_response, key),
                      !.response_body = WriteResponse(task.response_body, key),
                      !.proof_value = task.proof_value \o "+onchainProof"]

\* the caller, holding the result, writes to the response dict while a
\* submit_task that shares it has not run yet
CallerWritesResponse(key) ==
    /\ pc = "returned"
    /\ ret.k = "value"
    /\ cur.resp_obj.t = "dict"
    /\ ~cur.wrote_resp
    /\ \E i \in 1..Len(tasks) : tasks[i].req = nreq /\ tasks[i].state = "scheduled"
    /\ key = "proof" =>
          ProofTruthy(cur.resp_obj.proof) /\ cur.resp_obj.onchainProof # Absent
    /\ cur' = [cur EXCEPT !.resp_obj = WriteResponse(cur.resp_obj, key),
                          !.wrote_resp = TRUE]
    /\ tasks' = [i \in 1..Len(tasks) |->
                    IF tasks[i].req = nreq THEN WriteAliases(tasks[i], key)
                    ELSE tasks[i]]
    /\ UNCHANGED <<client, red, config, config0, heap, pc, nreq, ret>>

\* close(): client.aclose() closes the client and the connections of its
\* pool, those with a POST of a submit_task in flight included; cut says
\* whether such a POST was still exchanging data (it then fails) or had
\* its response already
Close(cut) ==
    /\ pc # "awaiting"
    /\ ~client.closed
    /\ client' = [closed |-> TRUE]
    /\ tasks' = [i \in 1..Len(tasks) |->
                    IF tasks[i].state = "running" /\ cut
                    THEN [tasks[i] EXCEPT !.conn = "cut"]
                    ELSE tasks[i]]
    /\ UNCHANGED <<red, config, config0, heap, pc, nreq, cur, ret>>

(***************************************************************************)
(* Specifications.                                                         *)
(*   SpecOne: one request() over every body, url, method, configuration    *)
(*            and response of the input sets.                              *)
(*   Spec:    up to MaxRequests consecutive request() calls, which may     *)
(*            pass the same body object again, over a few inputs.          *)
(***************************************************************************)
InitWith(cfgs) ==
    /\ config \in cfgs
    /\ config0 = config
    /\ heap = <<>>
    /\ pc = "idle"
    /\ nreq = 0
    /\ cur = NoCur
    /\ ret = NoResult
    /\ tasks = <<>>
    /\ red = NoRed
    /\ client = [closed |-> FALSE]

CallerValues == {Str("123")}
ResponseKeys == {"verified", "proof"}

InitOne == InitWith(Configs)

NextOne ==
    \/ \E b \in Bodies, u \in Urls, m \in Methods :
          /\ nreq = 0
          /\ ZkfetchRequest(<<b>>, 1, u, m)
    \/ \E b \in Bodies, u \in Urls, m \in Methods :
          /\ nreq = 0
          /\ HttpProxyRequest(<<b>>, 1, u, m)
    \/ \E r \in Responses : Respond(r)
    \/ \E i \in 1..Len(tasks) : TaskStart(i)
    \/ \E i \in 1..Len(tasks), a \in AttestReplies : TaskFinish(i, a)
    \/ \E v \in CallerValues : CallerWritesBody(v)
    \/ \E key \in ResponseKeys : CallerWritesResponse(key)

SpecOne == InitOne /\ [][NextOne]_vars

SeqBodies ==
    { PyNone,
      PyDict(Dict(Str("book"), Abs, Str("123"), Str("John Doe"), Str("NYC"))),
      PyJson(Dict(Abs, Abs, Str("123"), Abs, Str("NYC"))) }

SeqUrls == { Url("http://api/flights", FALSE, <<>>) }

SeqConfigs ==
    { c \in Configs :
        /\ c.proxy_type = "zkfetch" =>
              c.tool_options_map =
                 [isNone |-> FALSE, m |-> ToolMap(NoEntry, Entry(OptA), NoEntry)]
        /\ c.default_zk_options \in
              {[isNone |-> FALSE, opt |-> OptB], [isNone |-> TRUE, opt |-> DefaultToolOptions]}
        /\ c.attestation_config \in
              {AttestationNone, AttestationConfig("http://attest", TRUE, NoneStr, NoneStr)} }

SeqResponses ==
    { HttpResponse(500, "internal error", InvalidJson),
      HttpResponse(200, "{..}", RespDict(Absent, Absent, Absent)),
      HttpResponse(200, "{..}", RespDict("zk-1", Absent, Absent)) }

SeqReplies == {AttestError, AttestReply(200, "proof-1")}

Init == InitWith(SeqConfigs)

Next ==
    \/ \E b \in SeqBodies, u \in SeqUrls :
          /\ nreq < MaxRequests
          /\ ZkfetchRequest(Append(heap, b), Len(heap) + 1, u, "POST")
    \/ \E u \in SeqUrls :
          /\ nreq < MaxRequests
          /\ heap # <<>>
          /\ ZkfetchRequest(heap, Len(heap), u, "POST")
    \/ \E b \in SeqBodies, u \in SeqUrls :
          /\ nreq < MaxRequests
          /\ HttpProxyRequest(Append(heap, b), Len(heap) + 1, u, "POST")
    \/ \E r \in SeqResponses : Respond(r)
    \/ \E i \in 1..Len(tasks) : TaskStart(i)
    \/ \E i \in 1..Len(tasks), a \in SeqReplies \cup {AttestClosed} : TaskFinish(i, a)
    \/ \E v \in CallerValues : CallerWritesBody(v)
    \/ \E cut \in BOOLEAN : Close(cut)

Spec == Init /\ [][Next]_vars

\* SpecRedact: up to MaxApply calls of apply_redactions on one value with
\* one rule list of at most MaxRules rules
InitRedact ==
    /\ config \in {c \in Configs : c.proxy_type = "http"}
    /\ config0 = config
    /\ heap = <<>>
    /\ pc = "idle"
    /\ nreq = 0
    /\ cur = NoCur
    /\ ret = NoResult
    /\ tasks = <<>>
    /\ red \in {RedOf(doc, redactions) : doc \in Docs, redactions \in RuleLists}
    /\ client = [closed |-> FALSE]

NextRedact == ApplyRedactions

SpecRedact == InitRedact /\ [][NextRedact]_vars

(***************************************************************************)
(* Properties.                                                             *)
(***************************************************************************)
\* the names of a hiddenParameters list
HiddenOf(zk) ==
    IF zk.private_options.hp.t = "list"
    THEN {zk.private_options.hp.v[i] : i \in 1..Len(zk.private_options.hp.v)}
    ELSE {}

\* f is a query parameter of url
QueryHas(url, f) ==
    url.hasQ /\ \E i \in 1..Len(url.q) : QsUnquote(url.q[i][1]) = f

\* the values a JSON object text gives key f
BodyValues(json, f) ==
    {json.members[i][2] : i \in {j \in 1..Len(json.members) : json.members[j][1] = f}}

\* the values the query string of url gives parameter f
QueryValues(url, f) ==
    {url.q[i][2] : i \in {j \in 1..Len(url.q) : QsUnquote(url.q[j][1]) = f}}

\* the tasks created by the current request() call
CurTasks == {i \in 1..Len(tasks) : tasks[i].req = nreq}

\* C1: in the payload POSTed to the proof-generation service, every field
\* of a hiddenParameters list that is a top-level key of the body has the
\* placeholder "{field}" in the serialized body, and every such field that
\* is a query parameter has "{{field}}" in the url; the real values are in
\* neither.  The payload is the one built in the step that issues the POST.
C1_HiddenValuesNotPosted ==
    cur.posted =>
        \A f \in HiddenOf(cur.zk) :
            /\ HasKey(cur.orig.d, f) =>
                  BodyValues(cur.payload.publicOptions.body, f)
                      = {Str(BodyPlaceholder(f))}
            /\ QueryHas(cur.url, f) =>
                  QueryValues(cur.payload.url, f) = {QueryPlaceholder(f)}

C1_Witness ==
    /\ pc = "awaiting"
    /\ cur.posted
    /\ cur.orig.k = "str"
    /\ \E f \in HiddenOf(cur.zk) :
          /\ HasKey(cur.orig.d, f) /\ QueryHas(cur.url, f)
          /\ cur.orig.d[f] \notin BodyValues(cur.payload.publicOptions.body, f)

AttestationOn ==
    ~config.attestation_config.isNone /\ config.attestation_config.enabled

\* C3: when the submission of the current request has failed (transport
\* error, non-2xx status, or no string proof_id), the caller of request()
\* still holds exactly the decoded response of the proof-generation call.
C3_SubmitFailureIsolated ==
    \A i \in CurTasks :
        tasks[i].state = "failed" =>
            /\ pc = "returned"
            /\ ret = Value(cur.response.json)

C3_Witness ==
    \E i \in CurTasks :
        /\ tasks[i].state = "failed"
        /\ ret = Value(cur.response.json)
        /\ ProofTruthy(ret.value.proof)

\* C4: a request() that returned a response with a proof, with
\* attestation present and enabled, has left a submission task behind, and
\* whenever that task has not started or not completed yet the caller
\* already holds the result.
C4_ReturnsBeforeSubmission ==
    /\ \A i \in CurTasks :
          tasks[i].state \in {"scheduled", "running"} =>
              pc = "returned" /\ ret.k = "value"
    /\ (/\ pc = "returned"
        /\ ret.k = "value"
        /\ ProofTruthy(ret.value.proof)
        /\ AttestationOn) => CurTasks # {}

C4_Witness ==
    /\ pc = "returned"
    /\ ret.k = "value"
    /\ \E i \in CurTasks : tasks[i].state = "scheduled"

\* C5: a submission task exists for the current request only once the
\* proof-generation round trip has succeeded with a response that carries
\* a proof, with attestation present and enabled; while the POST is
\* outstanding, or when the response has no proof field, or attestation is
\* absent or disabled, there is none.
C5_SubmissionOnlyAfterProof ==
    /\ pc = "awaiting" => CurTasks = {}
    /\ \A i \in CurTasks :
          /\ cur.response.exc = ""
          /\ IsSuccess(cur.response.status)
          /\ cur.response.json.t = "dict"
          /\ cur.response.json.proof # Absent
          /\ tasks[i].proof_value = cur.resp_obj.proof
          /\ AttestationOn

C5_Witness ==
    \E i \in CurTasks :
        /\ tasks[i].state = "done"
        /\ tasks[i].proof_value = cur.resp_obj.proof
        /\ tasks[i].proof_value # Absent

\* C6: when the proof-generation call answers with a non-2xx status,
\* request() raises an error that carries the status code and the body
\* text, and no submission task (hence no proof record) exists for it.
C6_Non2xxFails ==
    (/\ pc = "returned"
     /\ cur.posted
     /\ cur.response.exc = ""
     /\ ~IsSuccess(cur.response.status)) =>
        /\ ret = Raise(Error("Exception", cur.response.status, cur.response.text))
        /\ CurTasks = {}

C6_Witness ==
    /\ pc = "returned"
    /\ cur.posted
    /\ cur.response.status = 500
    /\ cur.response.text = "internal error"
    /\ ret.k = "error"
    /\ ret.err.status = 500
    /\ AttestationOn

\* C7 as claimed: the options resolved for a request are the map's entry
\* for every tool name that is a key of the tool-options map, and
\* otherwise the default when there is one, otherwise empty options.
C7_FirstMatchWins ==
    cur.posted =>
        IF /\ cur.tool_name # NoneStr
           /\ ~config.tool_options_map.isNone
           /\ InMap(config.tool_options_map, cur.tool_name)
        THEN cur.zk = config.tool_options_map.m[cur.tool_name].opt
        ELSE IF ~config.default_zk_options.isNone
        THEN cur.zk = config.default_zk_options.opt
        ELSE cur.zk = DefaultToolOptions

\* C8: the configuration, with every ToolOptions, its private fields and
\* its hiddenParameters list, equals the one passed at construction after
\* any sequence of requests, and the options used by a request are the
\* ones that resolve from (tool name, configuration at construction).
C8_ConfigNeverMutated ==
    /\ config = config0
    /\ cur.posted => cur.zk = resolve_tool_options(config0, cur.tool_name)

C8_Witness ==
    /\ nreq >= 2
    /\ pc = "returned"
    /\ cur.pm # EmptyMap
    /\ cur.payload.privateOptions # cur.zk.private_options
    /\ config = config0

\* the hidden-parameter list that applies to the current request: the one
\* of the resolved options, or of the options no tool name resolves to
\* when the tool name could not be extracted
HiddenFor(c) ==
    HiddenOf(IF c.posted THEN c.zk ELSE resolve_tool_options(config, NoneStr))

\* C9 as claimed: for every body, a dict or a string that parses to one,
\* and every name of the hidden-parameter list that is a top-level key,
\* the parameter map holds name -> original value, the body holds "{name}"
\* at name, and every other top-level key keeps its value.
C9_HidingRecordsAndOverwrites ==
    (cur.id > 0 /\ config.proxy_type = "zkfetch") =>
        /\ \A f \in HiddenFor(cur) :
              HasKey(cur.orig.d, f) =>
                  /\ cur.pm[f] = cur.orig.d[f]
                  /\ cur.final_body.v.d[f] = Str(BodyPlaceholder(f))
        /\ \A key \in TopKeys \ HiddenFor(cur) :
              cur.final_body.v.d[key] = cur.orig.d[key]

\* C10 as claimed: when the query string holds a hidden parameter, the
\* rewritten url has the same parameters at the same positions, the
\* hidden ones with the value "{{name}}" and every other one exactly as
\* written in the original url.
C10_QueryRewritePreservesOthers ==
    (cur.posted /\ \E f \in HiddenOf(cur.zk) : QueryHas(cur.url, f)) =>
        /\ cur.final_url.base = cur.url.base
        /\ \A f \in HiddenOf(cur.zk) :
              QueryHas(cur.url, f) => QueryValues(cur.final_url, f) = {QueryPlaceholder(f)}
        /\ \A i \in 1..Len(cur.url.q) :
              QsUnquote(cur.url.q[i][1]) \notin HiddenOf(cur.zk) =>
                  /\ i <= Len(cur.final_url.q)
                  /\ cur.final_url.q[i] = cur.url.q[i]

\* no name of the hidden-parameter list of the request is a top-level key
\* of the body or a query parameter of the url
NoHiddenApplies(c) ==
    \A f \in HiddenOf(c.zk) : ~HasKey(c.orig.d, f) /\ ~QueryHas(c.url, f)

\* the dict the caller's body stands for: the dict itself, or the one a
\* str body parses to
BodyDict(orig) == PyDict(orig.d)

C12_RedactionIdempotent ==
    red.n >= 1 => red.value = red.once /\ ~red.raised

C12_Witness ==
    /\ red.n = 2
    /\ red.value = red.once
    /\ red.value # red.orig
    /\ Len(red.redactions) = 2
    /\ red.redactions[1].path = <<"data", ".", "card">>
    /\ red.redactions[2].path = <<"data">>

\* the path of a rule leads, in doc, through dicts to a key that is there
Resolves(doc, rule) ==
    /\ rule.hasPath
    /\ LET parts == split(rule.path)
       IN  \A i \in 1..Len(parts) :
              /\ Node(doc, SubSeq(parts, 1, i - 1)) = DictNode
              /\ Node(doc, SubSeq(parts, 1, i)) # NoNode

\* some rule of the list that resolves in doc has its target at or above q
Covered(doc, redactions, q) ==
    \E j \in 1..Len(redactions) :
        /\ Resolves(doc, redactions[j])
        /\ LET parts == split(redactions[j].path)
           IN  q = parts \/ IsBelow(q, parts)

\* C13: apply_redactions raises nothing; a key absent before is absent
\* after; every node that no resolving rule's path reaches is as it was,
\* so a rule list none of whose paths resolves (missing intermediate
\* segment, intermediate value that is not a dict, missing final key, no
\* "path" at all) leaves the value as it was.
C13_UnresolvedRuleIsNoOp ==
    red.n >= 1 =>
        /\ ~red.raised
        /\ red.value.root = red.orig.root
        /\ \A q \in DocPaths :
              /\ red.orig.at[q] = NoNode => red.value.at[q] = NoNode
              /\ ~Covered(red.orig, red.redactions, q) =>
                    red.value.at[q] = red.orig.at[q]
        /\ (\A j \in 1..Len(red.redactions) :
               ~Resolves(red.orig, red.redactions[j])) => red.value = red.orig

C13_Witness ==
    /\ red.n = 1
    /\ Len(red.redactions) = 2
    /\ red.redactions[1].path = <<"data", ".", "card", ".", "id">>
    /\ red.redactions[2].path = <<"id", ".", "card">>
    /\ red.orig.at[<<"data", "card">>] = "4111"
    /\ red.orig.at[<<"id">>] = "u1"
    /\ red.value = red.orig

\* the body of the current request is a dict that holds a str at "name"
TopName(c) == c.orig.d["name"].t = "str"
\* ... a dict at "params" that holds a str at "name", at "toolName"
ParamsName(c) == c.orig.d["params"].t = "dict" /\ IsStrEntry(c.orig.d["params"].n)
ParamsToolName(c) == c.orig.d["params"].t = "dict" /\ IsStrEntry(c.orig.d["params"].tn)

\* C14: for a body that is None or a dict, the extracted tool name is the
\* top-level name when the body has one (a str); otherwise params.name
\* when there is one; otherwise params.toolName when there is one;
\* otherwise None.
C14_ExtractionOrder ==
    (cur.id > 0 /\ config.proxy_type = "zkfetch" /\ cur.orig.k # "str") =>
        /\ cur.posted
        /\ TopName(cur) => cur.tool_name = cur.orig.d["name"].s
        /\ (~TopName(cur) /\ ParamsName(cur)) =>
              cur.tool_name = cur.orig.d["params"].n
        /\ (~TopName(cur) /\ ~ParamsName(cur) /\ ParamsToolName(cur)) =>
              cur.tool_name = cur.orig.d["params"].tn
        /\ (~TopName(cur) /\ ~ParamsName(cur) /\ ~ParamsToolName(cur)) =>
              cur.tool_name = NoneStr

C14_Witness ==
    /\ cur.posted
    /\ cur.orig.k = "dict"
    /\ ~TopName(cur)
    /\ ParamsName(cur)
    /\ ParamsToolName(cur)
    /\ cur.orig.d["params"].n # cur.orig.d["params"].tn
    /\ cur.tool_name = cur.orig.d["params"].n

\* the tasks of the current request that have built their record
Submitted == {i \in CurTasks : tasks[i].state # "scheduled"}

Decoded ==
    /\ pc = "returned"
    /\ cur.posted
    /\ cur.response.exc = ""
    /\ IsSuccess(cur.response.status)
    /\ cur.response.json.t \notin {"invalid", "none"}
    /\ AttestationOn

\* C16 as claimed: a response without a proof field gives no record and
\* no error; a response with a proof field, whatever its value, gives a
\* record whose onchain_compatible says whether the response has
\* onchainProof, whose verified is the response's (false when absent), and
\* whose proof blob holds the proof and the onchainProof of the response.
C16_RecordForEveryProofField ==
    Decoded =>
        IF cur.response.json.proof = Absent
        THEN CurTasks = {} /\ ret.k = "value"
        ELSE /\ CurTasks # {}
             /\ \A i \in Submitted :
                   /\ tasks[i].sent.onchain_compatible
                         = (cur.response.json.onchainProof # Absent)
                   /\ tasks[i].sent.verified
                         = GetOr(cur.response.json.verified, "false")
                   /\ tasks[i].sent.proof
                         = [proof |-> cur.response.json.proof,
                            onchainProof |->
                               GetOr(cur.response.json.onchainProof, "null")]

\* C17: a submission is POSTed to the service url of the attestation
\* configuration followed by "/proofs/submit"; it succeeds, with the
\* proof id of the answer, exactly when the answer is a 2xx response
\* whose body holds a string proof_id; a transport error, another status,
\* or a body without a string proof_id make it fail.
C17_SubmitSucceedsIffProofId ==
    \A i \in 1..Len(tasks) :
        /\ tasks[i].state # "scheduled" =>
              tasks[i].submit_url
                  = config.attestation_config.service_url \o "/proofs/submit"
        /\ tasks[i].state \in {"done", "failed"} =>
              /\ tasks[i].state = "done" <=>
                    /\ tasks[i].reply.exc = ""
                    /\ tasks[i].reply.status \in 200..299
                    /\ tasks[i].reply.proof_id \notin {Absent, NonStr}
              /\ tasks[i].state = "done" => tasks[i].proof_id = tasks[i].reply.proof_id
              /\ tasks[i].state = "failed" => tasks[i].proof_id = NoneStr

C17_Witness ==
    \E i \in 1..Len(tasks) :
        /\ tasks[i].state = "done"
        /\ tasks[i].submit_url = "http://attest/proofs/submit"
        /\ tasks[i].reply.status = 200
        /\ tasks[i].proof_id = "proof-1"

\* C18 as claimed: in plain mode a request() with a method that
\* _build_request knows is issued, and it ends with the decoded JSON of a
\* 2xx response or with the failure of a non-2xx response, which carries
\* the status code and the body.
C18_PlainRequestIssued ==
    (/\ config.proxy_type # "zkfetch"
     /\ pc = "returned"
     /\ cur.id > 0
     /\ cur.method \in BuildableMethods) =>
        /\ cur.posted
        /\ \/ ret.k = "value"
           \/ /\ ret.k = "error"
              /\ ret.err.etype = "Exception"
              /\ ~IsSuccess(ret.err.status)

\* what a request() gives its caller for a transport response when the
\* configuration has no attestation: the exception of the transport, the
\* error of _handle_response, or the decoded response
PlainOutcome(response) ==
    IF response.exc # "" THEN Raise(Error(response.exc, 0, ""))
    ELSE handle_response(response)

\* C19 as claimed: for every transport response, what the caller of a
\* proof-generation request gets is what it gets without attestation,
\* whether attestation is absent, disabled or enabled and whatever the
\* submission does.
C19_OutcomeIndependentOfAttestation ==
    (pc = "returned" /\ cur.posted) => ret = PlainOutcome(cur.response)

\* C20 as claimed: whatever the caller does with its body and with the
\* response after request() returned, the record a task submits holds
\* the request body, the response, the proof and the verified flag as
\* they were when the proof-generation call returned.
C20_RecordFrozenAtReturn ==
    \A i \in Submitted :
        /\ tasks[i].sent.request.url = cur.final_url
        /\ tasks[i].sent.request.body = json_of(cur.final_body.v)
        /\ tasks[i].sent.response = cur.response.json
        /\ tasks[i].sent.proof.proof = cur.response.json.proof
        /\ tasks[i].sent.verified = GetOr(cur.response.json.verified, "false")

\* C21: no two submission tasks belong to the same request; every task
\* belongs to a request made so far whose response was decoded with a
\* proof in it; hence there are never more tasks than requests, and a
\* task that has submitted holds the one record it built.
C21_AtMostOneSubmission ==
    /\ \A i, j \in 1..Len(tasks) : tasks[i].req = tasks[j].req => i = j
    /\ \A i \in 1..Len(tasks) :
          /\ tasks[i].req \in 1..nreq
          /\ tasks[i].response_body.t = "dict"
          /\ tasks[i].response_body.proof # Absent
          /\ tasks[i].req = nreq => pc = "returned" /\ ret.k = "value"
    /\ Len(tasks) <= nreq

C21_Witness ==
    /\ nreq = 2
    /\ Len(tasks) = 2
    /\ tasks[1].req = 1
    /\ tasks[2].req = 2
    /\ tasks[1].state = "failed"
    /\ tasks[2].state = "done"

\* C22 as claimed: close() never makes a submission that is in flight
\* fail or be cut off; only a submission that had not started when the
\* client was closed may be kept from happening.
C22_InFlightNeverInterrupted ==
    \A i \in 1..Len(tasks) :
        /\ tasks[i].conn # "cut"
        /\ (tasks[i].state = "failed" /\ tasks[i].reply = AttestClosed) =>
              tasks[i].conn = "refused"

\* C23 as claimed: a request whose body is a str that json.loads rejects
\* reaches the POST: nothing is raised before it, the body of the payload
\* is that string, and no body field is hidden.
C23_UnparsableBodyPassesThrough ==
    (/\ cur.id > 0
     /\ config.proxy_type = "zkfetch"
     /\ cur.orig.k = "str"
     /\ ~cur.orig.ok) =>
        /\ cur.posted
        /\ pc = "returned" => cur.response # NoResponse
        /\ cur.final_body.v = cur.orig
        /\ cur.payload.publicOptions.body = json_of(cur.orig)
        /\ \A f \in Names : ~QueryHas(cur.url, f) => cur.pm[f] = Abs

\* C24 as claimed: when a parameter was hidden, the privateOptions of the
\* payload hold the parameter map as paramValues, hold no
\* hiddenParameters, and hold every other private field of the resolved
\* options as it is there.
C24_OtherPrivateFieldsKept ==
    (cur.posted /\ cur.pm # EmptyMap) =>
        /\ cur.payload.privateOptions.paramValues = [has |-> TRUE, v |-> cur.pm]
        /\ cur.payload.privateOptions.hp = NoList
        /\ cur.payload.privateOptions.hideRequestBody
              = cur.zk.private_options.hideRequestBody
        /\ cur.payload.privateOptions.responseMatches
              = cur.zk.private_options.responseMatches

\* C24 amended: when a parameter was hidden, the privateOptions of the
\* payload hold the parameter map as paramValues, hold neither
\* hiddenParameters nor hideRequestBody, and hold every other private
\* field of the resolved options as it is there.
C24_ListAndHideFlagRemoved ==
    (cur.posted /\ cur.pm # EmptyMap) =>
        /\ ~cur.payload.privateOptions.isNone
        /\ cur.payload.privateOptions.paramValues = [has |-> TRUE, v |-> cur.pm]
        /\ cur.payload.privateOptions.hp = NoList
        /\ cur.payload.privateOptions.hideRequestBody = Absent
        /\ cur.payload.privateOptions.responseMatches
              = cur.zk.private_options.responseMatches

C24_Witness ==
    /\ cur.posted
    /\ cur.pm["ssn"] = Str("123")
    /\ cur.zk.private_options.hideRequestBody = "true"
    /\ cur.zk.private_options.hp.t = "list"
    /\ cur.payload.privateOptions.hideRequestBody = Absent
    /\ cur.payload.privateOptions.hp = NoList
    /\ cur.payload.privateOptions.paramValues.v["ssn"] = Str("123")

\* q is the target of a rule of the list that resolves in doc
Target(doc, redactions, q) ==
    \E j \in 1..Len(redactions) :
        Resolves(doc, redactions[j]) /\ split(redactions[j].path) = q

\* C25: after apply_redactions, the key at the last segment of every rule
\* that resolves holds "****" (unless a rule masked a key above it); every
\* key that is neither such a key nor below one holds the value it held,
\* and the root and every dict and list that was not replaced by a mask is
\* the same object as before.
C25_OnlyFinalSegmentReplaced ==
    red.n >= 1 =>
        /\ red.value.root = red.orig.root
        /\ red.value.root_oid = red.orig.root_oid
        /\ \A q \in DocPaths :
              IF Covered(red.orig, red.redactions, q)
              THEN /\ red.value.at[q] \in {Mask, NoNode}
                   /\ red.value.at[q] = Mask => Target(red.orig, red.redactions, q)
                   /\ red.value.oid[q] = NoObject
              ELSE /\ red.value.at[q] = red.orig.at[q]
                   /\ red.value.oid[q] = red.orig.oid[q]

C25_Witness ==
    /\ red.n = 1
    /\ red.redactions = <<Rule(<<"data", ".", "card">>)>>
    /\ red.orig.at[<<"data", "card">>] = "4111"
    /\ red.orig.at[<<"data", "id">>] = NumNode
    /\ red.value.at[<<"data", "card">>] = Mask
    /\ red.value.at[<<"data", "id">>] = NumNode
    /\ red.value.at[<<"id">>] = "u1"
    /\ red.value.oid[<<"data">>] = red.orig.oid[<<"data">>]
    /\ red.value.oid[<<"data">>] # NoObject

\* C26: the payload of the proof-generation call has exactly the parts url,
\* publicOptions (method, headers, serialized body, timeout), privateOptions
\* and redactions; the redactions are the rules of the resolved options in
\* their configured order (none when the options have none), and the timeout
\* is the one of the public options when they have one and 30000 ms
\* otherwise, also when the options have no public options at all.
C26_PayloadParts ==
    cur.posted =>
        LET p == cur.payload
            pub == cur.zk.public_options
        IN  /\ DOMAIN p = {"url", "publicOptions", "privateOptions", "redactions"}
            /\ DOMAIN p.publicOptions = {"method", "headers", "body", "timeout"}
            /\ p.url = cur.final_url
            /\ p.publicOptions.method = cur.method
            /\ p.publicOptions.headers = {"Content-Type: application/json"}
            /\ p.publicOptions.timeout =
                  IF ~pub.isNone /\ pub.hasTimeout THEN pub.timeout ELSE 30000
            /\ p.redactions =
                  IF cur.zk.redactions.isNone THEN <<>> ELSE cur.zk.redactions.v

C26_Witness ==
    /\ cur.posted
    /\ cur.zk.public_options.hasTimeout
    /\ cur.payload.publicOptions.timeout = 5000
    /\ cur.payload.redactions = <<"response.data", "response.id">>

\* C27: every entry of the public options of the resolved tool options
\* (timeout, method, headers) is part of the publicOptions of the payload.
C27_PublicEntriesIncluded ==
    cur.posted =>
        LET pub == cur.zk.public_options
            sent == cur.payload.publicOptions
        IN  ~pub.isNone =>
               /\ pub.hasTimeout => sent.timeout = pub.timeout
               /\ pub.hasMethod => sent.method = pub.method
               /\ pub.hasHeaders => pub.headers \subseteq sent.headers

C29_RepeatedRequestSame ==
    [][(nreq' = nreq + 1 /\ cur'.posted) =>
          /\ heap'[cur'.id] = cur'.orig
          /\ (/\ cur.posted
              /\ ~cur.wrote
              /\ cur'.id = cur.id
              /\ cur'.url = cur.url
              /\ cur'.method = cur.method)
             => /\ cur'.payload = cur.payload
                /\ cur'.pm = cur.pm]_vars

\* C30: for a hidden name that is both a top-level key of the body and a
\* query parameter of the url, the POSTed body holds "{name}", the POSTed
\* url holds "{{name}}", and the parameter map holds the original value of
\* the body's occurrence and an original value of the query's occurrence
\* (percent-decoded as line 261 decodes it).
C30_BothOccurrencesRecorded ==
    cur.posted =>
        \A f \in HiddenOf(cur.zk) :
            (HasKey(cur.orig.d, f) /\ QueryHas(cur.url, f)) =>
                /\ BodyValues(cur.payload.publicOptions.body, f)
                      = {Str(BodyPlaceholder(f))}
                /\ QueryValues(cur.payload.url, f) = {QueryPlaceholder(f)}
                /\ cur.pm[f] = cur.orig.d[f]
                /\ cur.pm[f] \in {Str(unquote(QsUnquote(v))) :
                                     v \in QueryValues(cur.url, f)}

====
